---- MODULE Spec2Model ----
(***************************************************************************)
(* The online finite-difference parameter tuner of PlayStyle.ipynb:        *)
(* validate_parameters, get_selection_probs, get_one_hot, calculate_loss,  *)
(* get_numerical_gradients, update_parameters and the training loop of the *)
(* MAIN cell.                                                              *)
(*                                                                         *)
(* Numbers.  The notebook computes in floating point; the model computes   *)
(* in exact integers on fixed grids:                                       *)
(*   - a parameter p is the integer p * ParamScale.  ParamScale is chosen  *)
(*     so that every number the code adds to a parameter is an integer:    *)
(*     the range ends (0.0001, 0.1, ...), the perturbations (0.099, 1, 2)  *)
(*     and learning_rate * gradient;                                       *)
(*   - a loss l is the integer l * LossScale, -log2 rounded UP to the grid *)
(*     (so a loss is 0 exactly when the probability is 1);                 *)
(*   - a gradient g is the integer g * GradScale;                          *)
(*   - an unnormalised selection weight w is the integer w * WeightScale,  *)
(*     rounded down; a probability is the pair <<weight, sum>>;            *)
(*   - a value estimate q is an integer of the engine's scale [-1, 1].     *)
(* Python indexes the parameter vector 0..8, the model 1..9: index i of    *)
(* the code is index i+1 here.                                             *)
(***************************************************************************)
EXTENDS Integers, Sequences, FiniteSets, TLC

VARIABLES
    pc,                \* where the running cell (or the function under test) is
    parameter_values,  \* the list of line 348, mutated in place ever after
    parameter_log,     \* line 338; entry 1 is the list object itself (line 349)
    loss_log,          \* line 339
    prediction_acc,    \* line 340
    convergence,       \* line 341
    count,             \* line 342
    gradients,         \* the loop's accumulator, lines 357, 379, 393
    data_train,        \* the example stream of line 359
    example_idx,       \* position of the for loop of line 359 in data_train
    loss,              \* the capped loss of the current example, lines 364-374
    grad_local,        \* get_numerical_gradients' own list, line 257
    loss_perturbated,  \* the capped loss of the last probe, lines 267-274
    probe_i,           \* the index the loop of line 260 is at
    pre_call,          \* parameter_values as get_numerical_gradients received it
    engine_config,     \* the vector last handed to analyze_position
    analysis,          \* what analyze_position last returned
    one_hot,           \* the indicator of lines 363 / 266
    last_probs,        \* the selection probabilities of lines 362 / 265
    noise,             \* queries so far that did not return the reference result
    error,             \* the exception that ended the cell, or "none"
    arg,               \* argument of the function under test
    ret                \* its result

vars == <<pc, parameter_values, parameter_log, loss_log, prediction_acc,
          convergence, count, gradients, data_train, example_idx, loss,
          grad_local, loss_perturbated, probe_i, pre_call, engine_config, analysis, one_hot,
          last_probs, noise, error, arg, ret>>

loop_vars == <<parameter_values, parameter_log, loss_log, prediction_acc,
               convergence, count, gradients, data_train, example_idx, loss,
               grad_local, loss_perturbated, probe_i, pre_call, engine_config, analysis, one_hot,
               last_probs, noise, error>>

-----------------------------------------------------------------------------
(* Bounds of the model *)

\* the iteration budget; 35000 in the code
Budget == 2
\* longest example stream
MaxData == 3
\* queries of one run that may return something other than the reference
\* result of their position (another result, or a failure)
MaxNoise == 1
\* most moves in an evaluation result given to get_selection_probs alone
MaxMoves == 2
\* largest visit count in such a result
MaxVisits == 2
\* grid of the losses: a loss is a multiple of 1/LossScale
LossScale == 2
\* grid of the selection weights: a weight is a multiple of 1/WeightScale
WeightScale == 16

-----------------------------------------------------------------------------
(* Units *)

ParamScale == 990000 * LossScale
GradScale == 198 * LossScale

NumParams == 9
Indices == 1..NumParams

RECURSIVE IPow(_, _)
IPow(b, e) == IF e = 0 THEN 1 ELSE b * IPow(b, e - 1)

RECURSIVE SeqSum(_)
SeqSum(s) == IF s = <<>> THEN 0 ELSE Head(s) + SeqSum(Tail(s))

SeqMax(s) == CHOOSE x \in {s[j] : j \in DOMAIN s} : \A j \in DOMAIN s : s[j] <= x

\* list.index(x): the first position holding x
IndexOf(s, x) == CHOOSE j \in DOMAIN s : s[j] = x /\ \A k \in 1..(j - 1) : s[k] # x

Abs(x) == IF x < 0 THEN -x ELSE x

-----------------------------------------------------------------------------
(* validate_parameters, lines 183-210 *)

Clamp(x, lo, hi) == IF x < lo THEN lo ELSE IF x > hi THEN hi ELSE x

\* the declared range of each field (spec section 6, and the bounds of
\* lines 187-208)
RangeLo(i) ==
    CASE i \in {4, 5, 6, 7} -> -50 * ParamScale
      [] i \in {1, 9}       -> 0
      [] i = 2              -> -100 * ParamScale
      [] i = 3              -> ParamScale \div 10
      [] i = 8              -> ParamScale \div 10000

RangeHi(i) ==
    CASE i \in {4, 5, 6, 7} -> 50 * ParamScale
      [] i \in {1, 9}       -> 100 * ParamScale
      [] i = 2              -> 100 * ParamScale
      [] i = 3              -> 10 * ParamScale
      [] i = 8              -> 100 * ParamScale

\* a plausible slip: the upper branch of the temperature and cutoff fields
\* (lines 195-196, 207-208) is lost
validate_parameters_noupper(pv) ==
    [i \in Indices |->
        IF i \in {8, 9} THEN (IF pv[i] < RangeLo(i) THEN RangeLo(i) ELSE pv[i])
        ELSE Clamp(pv[i], RangeLo(i), RangeHi(i))]

validate_parameters(pv) ==
    [i \in Indices |->
        CASE i \in {4, 5, 6, 7} ->
                IF pv[i] < -50 * ParamScale THEN -50 * ParamScale
                ELSE IF pv[i] > 50 * ParamScale THEN 50 * ParamScale ELSE pv[i]
          [] i \in {1, 9} ->
                IF pv[i] < 0 THEN 0
                ELSE IF pv[i] > 100 * ParamScale THEN 100 * ParamScale ELSE pv[i]
          [] i = 2 ->
                IF pv[i] < -100 * ParamScale THEN -100 * ParamScale
                ELSE IF pv[i] > 100 * ParamScale THEN 100 * ParamScale ELSE pv[i]
          [] i = 3 ->
                IF pv[i] < ParamScale \div 10 THEN ParamScale \div 10
                ELSE IF pv[i] > 10 * ParamScale THEN 10 * ParamScale ELSE pv[i]
          [] i = 8 ->
                IF pv[i] < ParamScale \div 10000 THEN ParamScale \div 10000
                ELSE IF pv[i] > 100 * ParamScale THEN 100 * ParamScale ELSE pv[i]]

InRange(pv) == \A i \in Indices : RangeLo(i) <= pv[i] /\ pv[i] <= RangeHi(i)

-----------------------------------------------------------------------------
(* get_selection_probs, lines 219-241 *)

\* An evaluation result: what analyze_position returns (line 120), the three
\* parallel lists engine_moves, engine_moves_n, q_values.
Result(moves, ns, qs) == [engine_moves |-> moves, engine_moves_n |-> ns, q_values |-> qs]

\* w * (n/m)^k on the weight grid, each product rounded down
RECURSIVE FixedPow(_, _, _, _)
FixedPow(w, n, m, k) ==
    IF k = 0 \/ w = 0 THEN w ELSE FixedPow((w * n) \div m, n, m, k - 1)

\* whether y * (j/WeightScale)^r <= (n/m) * WeightScale^3, the products
\* rounded down; they only shrink, so the test may stop at the first success
RECURSIVE PowerFits(_, _, _, _, _)
PowerFits(y, j, n, m, r) ==
    IF y * m <= n * WeightScale * WeightScale * WeightScale THEN TRUE
    ELSE IF r = 0 \/ j = WeightScale THEN FALSE
    ELSE PowerFits((y * j) \div WeightScale, j, n, m, r - 1)

\* the largest weight j/WeightScale, from j down, whose r-th power is at
\* most n/m
RECURSIVE RootSearch(_, _, _, _)
RootSearch(j, n, m, r) ==
    IF j = 0 \/ PowerFits(WeightScale * WeightScale * WeightScale, j, n, m, r)
    THEN j
    ELSE RootSearch(j - 1, n, m, r)

FixedRoot(n, m, r) == RootSearch(WeightScale, n, m, r)

\* (n / max_n) ** (1 / temperature), line 237, for temperature > 0 and
\* 0 <= n <= max_n, max_n > 0.  The exponent 1/temperature is rounded to the
\* nearest whole number k (temperature <= 1) or unit fraction 1/r
\* (temperature > 1); 0 ** x is 0 and 1 ** x is 1, as in floating point.
Power(n, max_n, temperature) ==
    IF n = 0 THEN 0
    ELSE IF n = max_n THEN WeightScale
    ELSE IF temperature <= ParamScale
         THEN FixedPow(WeightScale, n, max_n,
                       (2 * ParamScale + temperature) \div (2 * temperature))
         ELSE FixedRoot(n, max_n, (2 * temperature + ParamScale) \div (2 * ParamScale))

\* q < min_eval, lines 230 and 234: q < max_eval - temp_value_cutoff / 50,
\* both sides multiplied by 50 * ParamScale
BelowCutoff(q, max_eval, temp_value_cutoff) ==
    q * 50 * ParamScale < max_eval * 50 * ParamScale - temp_value_cutoff

\* a plausible slip: "q <= min_eval" for "q < min_eval" in line 234, which
\* drops the moves that sit exactly on the cutoff
get_selection_probs_dropequal(pv, engine_moves_n, q_values) ==
    LET max_n == SeqMax(engine_moves_n)
        max_eval == q_values[IndexOf(engine_moves_n, max_n)]
        excluded == [j \in DOMAIN engine_moves_n |->
                        ~BelowCutoff(max_eval, q_values[j], -pv[9])]
        w == [j \in DOMAIN engine_moves_n |->
                IF excluded[j] THEN 0 ELSE Power(engine_moves_n[j], max_n, pv[8])]
        summm == SeqSum(w)
    IN  IF max_n = 0 /\ \E j \in DOMAIN excluded : ~excluded[j]
        THEN [error |-> "ZeroDivisionError", probs |-> <<>>]
        ELSE IF summm = 0
        THEN [error |-> "ZeroDivisionError", probs |-> <<>>]
        ELSE [error |-> "none", probs |-> [j \in DOMAIN w |-> <<w[j], summm>>]]

\* The result is the list of probabilities, each the pair <<weight, summm>>,
\* or the exception the function raises: n / max_n (line 237) with max_n = 0,
\* or prob / summm (line 241) with summm = 0.  (With a temperature that is a
\* numpy float and a cutoff below 0 the division of line 241 yields nan
\* instead of raising; no vector validate_parameters returns has such a
\* cutoff.)
get_selection_probs(pv, engine_moves_n, q_values) ==
    LET temperature == pv[8]
        temp_value_cutoff == pv[9]
        max_n == SeqMax(engine_moves_n)
        max_eval == q_values[IndexOf(engine_moves_n, max_n)]
        excluded == [j \in DOMAIN engine_moves_n |->
                        BelowCutoff(q_values[j], max_eval, temp_value_cutoff)]
        w == [j \in DOMAIN engine_moves_n |->
                IF excluded[j] THEN 0
                ELSE Power(engine_moves_n[j], max_n, temperature)]
        summm == SeqSum(w)
    IN  IF max_n = 0 /\ \E j \in DOMAIN excluded : ~excluded[j]
        THEN [error |-> "ZeroDivisionError", probs |-> <<>>]
        ELSE IF summm = 0
        THEN [error |-> "ZeroDivisionError", probs |-> <<>>]
        ELSE [error |-> "none", probs |-> [j \in DOMAIN w |-> <<w[j], summm>>]]

-----------------------------------------------------------------------------
(* get_one_hot, lines 129-138, and calculate_loss, lines 147-153 *)

get_one_hot(engine_moves, player_move) ==
    [j \in DOMAIN engine_moves |->
        IF player_move \in {engine_moves[k] : k \in DOMAIN engine_moves}
           /\ j = IndexOf(engine_moves, player_move)
        THEN 1 ELSE 0]

RECURSIVE Doublings(_, _, _)
Doublings(a, b, m) == IF a >= b THEN m ELSE Doublings(2 * a, b, m + 1)

\* -log2(num/den) on the loss grid, rounded up: the least m with
\* (num/den)^LossScale * 2^m >= 1
NegLog2(num, den) == Doublings(IPow(num, LossScale), IPow(den, LossScale), 0)

\* what np.nan_to_num makes of -inf: minus the largest float.  Any number
\* above the cap of lines 373-374 stands for it.
FloatMax == 1000 * LossScale

\* one entry of -(nan_to_num(one_hot * log2(probs))): 0 * log2(p) is 0 (or
\* nan, which nan_to_num turns into 0); 1 * log2(0) is -inf
LossTerm(h, p) ==
    IF h = 0 THEN 0
    ELSE IF p[1] = 0 THEN FloatMax
    ELSE NegLog2(p[1], p[2])

calculate_loss(oh, engine_move_probs) ==
    SeqSum([j \in DOMAIN oh |-> LossTerm(oh[j], engine_move_probs[j])])

\* lines 373-374 and 273-274
CapLoss(l) == IF l > 5 * LossScale THEN 5 * LossScale ELSE l

\* lines 367-370: the flag appended to prediction_acc
PredictionFlag(oh) == IF oh[Len(oh)] = 1 THEN 1 ELSE 0

-----------------------------------------------------------------------------
(* get_numerical_gradients, lines 250-279, piece by piece *)

\* perturbations = [1, 2, 0.099, 1, 1, 1, 1, 1, 1], line 255
Perturbations ==
    <<ParamScale, 2 * ParamScale, (99 * ParamScale) \div 1000, ParamScale,
      ParamScale, ParamScale, ParamScale, ParamScale, ParamScale>>

\* lines 262-263: perturb field i, then validate the whole vector
Perturbed(pv, i) ==
    validate_parameters([pv EXCEPT ![i] = pv[i] + Perturbations[i]])

\* a plausible slip: the reset writes back what validation left in the field
Restored_keep(pv, i, parameter) == pv

\* line 270: parameter_values[i] = parameter
Restored(pv, i, parameter) == [pv EXCEPT ![i] = parameter]

\* line 277: (loss_perturbated - loss) / abs(perturbation), on the gradient
\* grid: GradScale * (d / LossScale) / (perturbation / ParamScale)
NumericalGradient(lp, l, i) ==
    (lp - l) * ((198 * ParamScale) \div Abs(Perturbations[i]))

-----------------------------------------------------------------------------
(* update_parameters, lines 162-174 *)

\* learning_rate = 0.001, line 344, as its inverse
learning_rate_inv == 1000

\* learning_rate * g as a parameter step
LrTimes(lr_inv, g) == (g * (ParamScale \div GradScale)) \div lr_inv

\* a plausible slip: the integer fields descend like the continuous ones
update_parameters_allcontinuous(pv, g, lr_inv) ==
    [i \in Indices |-> pv[i] - LrTimes(lr_inv, g[i])]

update_parameters(pv, g, lr_inv) ==
    [i \in Indices |->
        IF i \in {1, 2, 3} \/ i \in {8, 9}
        THEN pv[i] - LrTimes(lr_inv, g[i])
        ELSE IF g[i] < 0 THEN pv[i] + ParamScale
        ELSE IF g[i] > 0 THEN pv[i] - ParamScale
        ELSE pv[i]]

-----------------------------------------------------------------------------
(* The collaborators of the training loop: the example stream and the engine *)

\* One example of data_train: a board position and the move the player made
\* there (create_dataset, line 56).
Example(p, m) == [board_position |-> p, player_move |-> m]

\* The examples of the model, in dataset order; a stream is a window of this
\* cycle.
Stream ==
    <<Example("A", "e2e4"), Example("A", "g1f3"),
      Example("B", "d2d4"), Example("B", "e2e4")>>

Window(start, n) ==
    [k \in 1..n |-> Stream[((start + k - 2) % Len(Stream)) + 1]]

DataSets == {Window(start, n) : start \in 1..Len(Stream), n \in 1..MaxData}

\* analyze_position, lines 87-120: the engine's answer for a position is
\* outside the program.  Each position has a reference answer (the moves in
\* the order the engine lists them, with visit counts and value estimates);
\* a search of nodes=1000 (line 100) gives at least one move a visit.
Reference(board_position) ==
    IF board_position = "A"
    THEN Result(<<"d2d4", "e2e4">>, <<1, 2>>, <<0, 0>>)
    ELSE Result(<<"e2e4", "d2d4">>, <<2, 1>>, <<1, -1>>)

\* what a query may return instead, whatever the position and configuration
NoiseResults ==
    { Result(<<"d2d4", "e2e4">>, <<1, 2>>, <<0, 0>>),
      Result(<<"e2e4", "d2d4">>, <<2, 1>>, <<1, -1>>),
      Result(<<"d2d4", "e2e4">>, <<2, 2>>, <<0, 0>>),
      Result(<<"e2e4">>, <<2>>, <<0>>),
      Result(<<"d2d4", "e2e4">>, <<2, 1>>, <<1, 0>>) }

Returns(board_position, used) ==
    {Reference(board_position)} \cup (IF used < MaxNoise THEN NoiseResults ELSE {})

Zeros == [i \in Indices |-> 0]

\* parameter_values = [1.75, 0.33, 1.36, 0, 0, 0, 0, 1, 60], line 348
InitialVector ==
    <<(175 * ParamScale) \div 100, (33 * ParamScale) \div 100,
      (136 * ParamScale) \div 100, 0, 0, 0, 0, ParamScale, 60 * ParamScale>>

\* parameter_log[0] is the list object parameter_values (line 349 appends the
\* list, not a copy), so it shows every later in-place change of the list
Aliased(log, pv) == [log EXCEPT ![1] = pv]

NoResult == Result(<<>>, <<>>, <<>>)

-----------------------------------------------------------------------------
(* The MAIN cell, lines 333-395 *)

InitLoop(pv, data, used) ==
    /\ pc = "while"
    /\ parameter_values = pv
    /\ parameter_log = <<pv>>
    /\ loss_log = <<>>
    /\ prediction_acc = <<>>
    /\ convergence = FALSE
    /\ count = 0
    /\ gradients = Zeros
    /\ data_train = data
    /\ example_idx = 1
    /\ loss = 0
    /\ grad_local = Zeros
    /\ loss_perturbated = 0
    /\ probe_i = 1
    /\ pre_call = pv
    /\ engine_config = pv
    /\ analysis = NoResult
    /\ one_hot = <<>>
    /\ last_probs = <<>>
    /\ noise = used
    /\ error = "none"
    /\ arg = <<>>
    /\ ret = <<>>

Init == \E data \in DataSets : InitLoop(InitialVector, data, 0)

\* the test of line 388 taken one example late
BudgetReached_late(c) == c = Budget + 1

\* line 388: if count==35000
BudgetReached(c) == c = Budget

\* lines 355-357: the while test, gradients = np.zeros, the for loop starts
WhileHead ==
    /\ pc = "while"
    /\ convergence = FALSE
    /\ gradients' = Zeros
    /\ example_idx' = 1
    /\ pc' = "for"
    /\ UNCHANGED <<parameter_values, parameter_log, loss_log, prediction_acc,
                   convergence, count, data_train, loss, grad_local,
                   loss_perturbated, probe_i, pre_call, engine_config,
                   analysis, one_hot, last_probs, noise, error, arg, ret>>

\* line 355 with convergence set: the loop is left, line 395
WhileExit ==
    /\ pc = "while"
    /\ convergence = TRUE
    /\ pc' = "done"
    /\ UNCHANGED <<loop_vars, arg, ret>>

\* line 359 with the stream used up: back to the while test
ForExhausted ==
    /\ pc = "for"
    /\ example_idx > Len(data_train)
    /\ pc' = "while"
    /\ UNCHANGED <<loop_vars, arg, ret>>

\* lines 359-376, then the entry of get_numerical_gradients, lines 250-257
BaseQuery ==
    /\ pc = "for"
    /\ example_idx <= Len(data_train)
    /\ \E r \in Returns(data_train[example_idx].board_position, noise) :
       \E sel \in {get_selection_probs(parameter_values, r.engine_moves_n, r.q_values)} :
         LET ex == data_train[example_idx]
             oh == get_one_hot(r.engine_moves, ex.player_move)
             l == CapLoss(calculate_loss(oh, sel.probs))
         IN  /\ engine_config' = parameter_values
             /\ analysis' = r
             /\ noise' = IF r = Reference(ex.board_position) THEN noise ELSE noise + 1
             /\ IF sel.error # "none"
                THEN /\ pc' = "aborted"
                     /\ error' = sel.error
                     /\ UNCHANGED <<one_hot, last_probs, prediction_acc, loss,
                                    loss_log, pre_call, grad_local, probe_i>>
                ELSE /\ last_probs' = sel.probs
                     /\ one_hot' = oh
                     /\ prediction_acc' = Append(prediction_acc, PredictionFlag(oh))
                     /\ loss' = l
                     /\ loss_log' = Append(loss_log, l)
                     /\ pre_call' = parameter_values
                     /\ grad_local' = Zeros
                     /\ probe_i' = 1
                     /\ pc' = "probe"
                     /\ error' = error
    /\ UNCHANGED <<parameter_values, parameter_log, convergence, count,
                   gradients, data_train, example_idx, loss_perturbated, arg, ret>>

\* one turn of the loop of lines 260-277
Probe ==
    /\ pc = "probe"
    /\ \E r \in Returns(data_train[example_idx].board_position, noise) :
       \E pv \in {Perturbed(parameter_values, probe_i)} :
       \E sel \in {get_selection_probs(pv, r.engine_moves_n, r.q_values)} :
         LET ex == data_train[example_idx]
             i == probe_i
             parameter == parameter_values[i]
             oh == get_one_hot(r.engine_moves, ex.player_move)
             lp == CapLoss(calculate_loss(oh, sel.probs))
         IN  /\ engine_config' = pv
             /\ analysis' = r
             /\ noise' = IF r = Reference(ex.board_position) THEN noise ELSE noise + 1
             /\ IF sel.error # "none"
                THEN /\ pc' = "aborted"
                     /\ error' = sel.error
                     /\ parameter_values' = pv
                     /\ parameter_log' = Aliased(parameter_log, pv)
                     /\ UNCHANGED <<one_hot, last_probs, grad_local, probe_i,
                                    loss_perturbated>>
                ELSE /\ last_probs' = sel.probs
                     /\ one_hot' = oh
                     /\ parameter_values' = Restored(pv, i, parameter)
                     /\ parameter_log' =
                          Aliased(parameter_log, Restored(pv, i, parameter))
                     /\ loss_perturbated' = lp
                     /\ grad_local' =
                          [grad_local EXCEPT ![i] = NumericalGradient(lp, loss, i)]
                     /\ probe_i' = i + 1
                     /\ pc' = IF i = NumParams THEN "update" ELSE "probe"
                     /\ error' = error
    /\ UNCHANGED <<loss_log, prediction_acc, convergence, count, gradients,
                   data_train, example_idx, loss, pre_call, arg, ret>>

\* lines 379-393: the gradients are added up, the parameters updated and
\* validated in place, logged as a copy, and the count taken
Update ==
    /\ pc = "update"
    /\ LET g == [i \in Indices |-> gradients[i] + grad_local[i]]
           pv == validate_parameters(update_parameters(parameter_values, g, learning_rate_inv))
       IN  /\ parameter_values' = pv
           /\ parameter_log' = Append(Aliased(parameter_log, pv), pv)
           /\ count' = count + 1
           /\ IF BudgetReached(count')
              THEN /\ convergence' = TRUE
                   /\ gradients' = g
                   /\ pc' = "while"
                   /\ example_idx' = example_idx
              ELSE /\ convergence' = convergence
                   /\ gradients' = Zeros
                   /\ pc' = "for"
                   /\ example_idx' = example_idx + 1
    /\ UNCHANGED <<loss_log, prediction_acc, data_train, loss, grad_local,
                   loss_perturbated, probe_i, pre_call, engine_config, analysis, one_hot,
                   last_probs, noise, error, arg, ret>>

\* analyze_position raises (the engine died or rejected the configuration):
\* nothing in the cell catches it, so the cell ends there.  In a probe the
\* field is already perturbed (lines 262-263) and is not reset.
EvaluatorFails ==
    /\ noise < MaxNoise
    /\ \/ /\ pc = "for"
          /\ example_idx <= Len(data_train)
          /\ engine_config' = parameter_values
          /\ UNCHANGED <<parameter_values, parameter_log>>
       \/ /\ pc = "probe"
          /\ parameter_values' = Perturbed(parameter_values, probe_i)
          /\ parameter_log' =
               Aliased(parameter_log, Perturbed(parameter_values, probe_i))
          /\ engine_config' = Perturbed(parameter_values, probe_i)
    /\ noise' = noise + 1
    /\ error' = "EngineError"
    /\ pc' = "aborted"
    /\ UNCHANGED <<loss_log, prediction_acc, convergence, count, gradients,
                   data_train, example_idx, loss, grad_local, loss_perturbated,
                   probe_i, pre_call, analysis, one_hot, last_probs, arg, ret>>

Returning == WhileHead \/ WhileExit \/ ForExhausted \/ BaseQuery \/ Probe \/ Update

Next == Returning \/ EvaluatorFails

Spec == Init /\ [][Next]_vars

\* The same cell with an engine that answers every query.  Whether the cell
\* ends does not depend on what the answers are, so these runs take at most
\* one answer that differs from the reference.
InitLive ==
    \E data \in DataSets, used \in {MaxNoise - 1, MaxNoise} :
        InitLoop(InitialVector, data, used)

LiveSpec == InitLive /\ [][Returning]_vars /\ WF_vars(Returning)

-----------------------------------------------------------------------------
(* The same cell started from vectors a long run reaches: every field at *)
(* the upper end of its range, or at the lower end (35000 steps of at most *)
(* one unit per integer field and learning_rate * gradient per continuous *)
(* field lead there).                                                      *)

UpperVector == [i \in Indices |-> RangeHi(i)]
LowerVector == [i \in Indices |-> RangeLo(i)]

StartVectors == {InitialVector, UpperVector, LowerVector}

InitWide ==
    \E pv \in StartVectors, n \in 1..MaxData : InitLoop(pv, Window(1, n), 0)

WideSpec == InitWide /\ [][Next]_vars

-----------------------------------------------------------------------------
(* The functions on their own: the argument is drawn from a bounded set, *)
(* the function is applied, the result kept.                              *)

Idle ==
    /\ parameter_values = InitialVector
    /\ parameter_log = <<InitialVector>>
    /\ loss_log = <<>>
    /\ prediction_acc = <<>>
    /\ convergence = FALSE
    /\ count = 0
    /\ gradients = Zeros
    /\ data_train = <<>>
    /\ example_idx = 1
    /\ loss = 0
    /\ grad_local = Zeros
    /\ loss_perturbated = 0
    /\ probe_i = 1
    /\ pre_call = InitialVector
    /\ engine_config = InitialVector
    /\ analysis = NoResult
    /\ one_hot = <<>>
    /\ last_probs = <<>>
    /\ noise = 0
    /\ error = "none"

\* validate_parameters: each field below, inside or above its range
FieldInputs(i) ==
    <<RangeLo(i) - Perturbations[i], InitialVector[i], RangeHi(i) + Perturbations[i]>>

InitValidate ==
    /\ Idle
    /\ pc = "validate"
    /\ \E c \in [Indices -> 1..3] : arg = [i \in Indices |-> FieldInputs(i)[c[i]]]
    /\ ret = <<>>

\* validate_parameters(arg), and validate_parameters of what it returned
Validate ==
    /\ pc = "validate"
    /\ Len(ret) < 2
    /\ ret' = Append(ret, validate_parameters(IF ret = <<>> THEN arg ELSE ret[Len(ret)]))
    /\ pc' = IF Len(ret') = 2 THEN "validated" ELSE "validate"
    /\ UNCHANGED <<loop_vars, arg>>

ValidateSpec == InitValidate /\ [][Validate]_vars

\* get_selection_probs: a temperature, a cutoff and an evaluation result
TemperatureInputs ==
    {RangeLo(8), ParamScale \div 2, ParamScale, 2 * ParamScale, RangeHi(8)}

CutoffInputs == {-ParamScale, 0, 60 * ParamScale, 100 * ParamScale}

InitSelect ==
    /\ Idle
    /\ pc = "select"
    /\ \E t \in TemperatureInputs, c \in CutoffInputs, len \in 1..MaxMoves :
         \E ns \in [1..len -> 0..MaxVisits], qs \in [1..len -> -1..1] :
            arg = [parameter_values |-> [InitialVector EXCEPT ![8] = t, ![9] = c],
                   engine_moves_n |-> ns,
                   q_values |-> qs]
    /\ ret = <<>>

Select ==
    /\ pc = "select"
    /\ ret' = get_selection_probs(arg.parameter_values, arg.engine_moves_n, arg.q_values)
    /\ pc' = "selected"
    /\ UNCHANGED <<loop_vars, arg>>

SelectSpec == InitSelect /\ [][Select]_vars

\* update_parameters: a vector and, per field, a gradient that line 277 can
\* produce: a loss difference of -5, 0 or one grid step over the perturbation
GradientInputs(i) ==
    <<NumericalGradient(0, 5 * LossScale, i), 0, NumericalGradient(1, 0, i)>>

InitUpdate ==
    /\ Idle
    /\ pc = "update_parameters"
    /\ \E pv \in {InitialVector, UpperVector}, c \in [Indices -> 1..3] :
         arg = [parameter_values |-> pv,
                gradients |-> [i \in Indices |-> GradientInputs(i)[c[i]]]]
    /\ ret = <<>>

UpdateCall ==
    /\ pc = "update_parameters"
    /\ ret' = update_parameters(arg.parameter_values, arg.gradients, learning_rate_inv)
    /\ pc' = "updated"
    /\ UNCHANGED <<loop_vars, arg>>

UpdateSpec == InitUpdate /\ [][UpdateCall]_vars

-----------------------------------------------------------------------------
(* Properties *)

\* the example the loop is working on, and what the claims say about it
CurrentMove == data_train[example_idx].player_move

Considered == CurrentMove \in {analysis.engine_moves[k] : k \in DOMAIN analysis.engine_moves}

\* the selection probability of the player's move in the last query
MoveProb == last_probs[IndexOf(analysis.engine_moves, CurrentMove)]

\* a query has just been evaluated: the base query of the example
\* (probe_i = 1) or the probe of index probe_i - 1
AfterQuery == pc \in {"probe", "update"}

\* the loss that query handed on: loss (lines 364-376) or loss_perturbated
\* (lines 267-277)
LossUsed == IF probe_i = 1 THEN loss ELSE loss_perturbated

\* C1: for every 9-field vector, in range or not, validate_parameters returns
\* a vector with every field inside its declared range, and validating that
\* result again changes nothing.
C1_ValidateClampsAndIsIdempotent ==
    /\ \A k \in DOMAIN ret : InRange(ret[k])
    /\ Len(ret) = 2 => ret[2] = ret[1]

\* C1 witness: a vector with a field out of range has been validated twice.
C1_Witness ==
    /\ pc = "validated"
    /\ ~InRange(arg)
    /\ ret[1] # arg
    /\ InRange(ret[2])

\* C2: the loss used downstream (appended to loss_log and passed to
\* get_numerical_gradients, and each loss_perturbated) is never negative,
\* never above 5, and is 0 only when the player's move is among the
\* considered moves and its selection probability is 1.
C2_LossZeroOnlyForCertainMove ==
    AfterQuery =>
        /\ 0 <= LossUsed
        /\ LossUsed <= 5 * LossScale
        /\ LossUsed = 0 => (Considered /\ MoveProb[1] = MoveProb[2])

\* C3: when the player's move is not among the considered moves, or is
\* among them with selection probability 0, no error comes out of the loss
\* computation and the loss used downstream is exactly the ceiling 5.
C3_UnconsideredMoveCostsTheCeiling ==
    (AfterQuery /\ (~Considered \/ MoveProb[1] = 0)) =>
        (error = "none" /\ LossUsed = 5 * LossScale)

\* One probability per move, all over the same positive sum, adding up to 1.
SumsToOne(probs, n) ==
    /\ Len(probs) = n
    /\ n > 0
    /\ \A j \in DOMAIN probs : probs[j][2] = probs[1][2] /\ probs[j][1] >= 0
    /\ probs[1][2] > 0
    /\ SeqSum([j \in DOMAIN probs |-> probs[j][1]]) = probs[1][2]

\* the inputs C4 speaks of: temperature > 0 and value cutoff in [0, 100]
\* (the results drawn are non-empty with visit counts >= 0)
ValidSelectArg ==
    /\ arg.parameter_values[8] > 0
    /\ 0 <= arg.parameter_values[9]
    /\ arg.parameter_values[9] <= 100 * ParamScale

\* every move's value estimate is below refValue - cutoff/50, refValue the
\* value estimate of the first move with the most visits
EveryMoveExcluded ==
    LET ns == arg.engine_moves_n
        ref == arg.q_values[IndexOf(ns, SeqMax(ns))]
    IN  \A j \in DOMAIN ns :
            arg.q_values[j] * 50 * ParamScale
                < ref * 50 * ParamScale - arg.parameter_values[9]

\* C4 as stated: for every non-empty result with visit counts >= 0 and every
\* vector with temperature > 0 and cutoff in [0, 100], get_selection_probs
\* returns one probability per move and they sum to 1; if every move is
\* excluded by the cutoff it signals EmptyDistribution instead.
C4_SumsToOneOrEmptyDistribution ==
    (pc = "selected" /\ ValidSelectArg) =>
        IF EveryMoveExcluded
        THEN ret.error = "EmptyDistribution"
        ELSE ret.error = "none" /\ SumsToOne(ret.probs, Len(arg.engine_moves_n))

\* What get_selection_probs does give: when some move has a visit, the
\* first most visited move is never excluded, no error is raised and the
\* probabilities sum to 1.
SumsToOneGivenAVisit ==
    (pc = "selected" /\ ValidSelectArg /\ SeqMax(arg.engine_moves_n) > 0) =>
        /\ ~EveryMoveExcluded
        /\ ret.error = "none"
        /\ SumsToOne(ret.probs, Len(arg.engine_moves_n))

\* a distribution in which a move with as many visits as the most visited
\* one is excluded by the cutoff
ExcludesAMostVisitedMove ==
    /\ pc = "selected"
    /\ ValidSelectArg
    /\ ret.error = "none"
    /\ \E j \in DOMAIN ret.probs :
          /\ ret.probs[j][1] = 0
          /\ arg.engine_moves_n[j] = SeqMax(arg.engine_moves_n)

\* the player's move is the single most probable move of the last query
SingleMostProbable ==
    /\ Considered
    /\ \A j \in DOMAIN last_probs :
          j # IndexOf(analysis.engine_moves, CurrentMove)
              => last_probs[j][1] * MoveProb[2] < MoveProb[1] * last_probs[j][2]

\* C5: the flag appended to prediction_acc is 1 exactly when the player's
\* move is the single highest-probability move of the selection distribution
\* over the considered moves, whatever the order of the moves, and 0
\* otherwise.
C5_FlagMarksTheSingleMostProbableMove ==
    (pc = "probe" /\ probe_i = 1) =>
        (prediction_acc[Len(prediction_acc)] = 1 <=> SingleMostProbable)

\* C6: if the evaluator fails for an example, in the base query or in a
\* probe, the driver does not abort: nothing is appended to the three logs
\* for that example, the parameter vector and the counter are as before the
\* example, and the loop goes on.
C6_EvaluatorFailureSkipsTheExample ==
    error = "EngineError" =>
        /\ pc # "aborted"
        /\ Len(loss_log) = count
        /\ Len(prediction_acc) = count
        /\ Len(parameter_log) = count + 1
        /\ parameter_values = pre_call

\* C7: with a non-empty stream (a stream shorter than the budget is run
\* through again from its first example) and an evaluator that always
\* returns, the driver eventually reaches Converged; the counter goes up by
\* exactly 1 per processed example, never exceeds the budget, and nothing
\* is processed once it equals the budget.
C7_ConvergesAtTheBudget ==
    /\ <>(pc = "done" /\ convergence = TRUE /\ count = Budget)
    /\ [](count <= Budget)
    /\ [][(pc = "update" => count' = count + 1)
          /\ (pc # "update" => count' = count)]_vars
    /\ [][count = Budget =>
            UNCHANGED <<parameter_values, parameter_log, loss_log,
                        prediction_acc, count, example_idx, engine_config>>]_vars

\* C7 witness: Converged on a stream shorter than the budget.
C7_Witness ==
    /\ pc = "done"
    /\ convergence = TRUE
    /\ count = Budget
    /\ Len(data_train) < Budget
    /\ Len(loss_log) = Budget

\* C8: get_numerical_gradients leaves the caller's vector as it received
\* it: after the probe of each index the vector equals the pre-call vector
\* in every field, each perturbed query differs from it in the probed field
\* at most, and the update that follows starts from it.
C8_ProbesRestoreTheVector ==
    AfterQuery =>
        /\ parameter_values = pre_call
        /\ probe_i > 1 =>
             \A j \in Indices : j # probe_i - 1 => engine_config[j] = pre_call[j]

\* C8 witness: a probe whose perturbed field was clamped by validation has
\* been reset.
C8_Witness ==
    /\ AfterQuery
    /\ probe_i > 1
    /\ engine_config[probe_i - 1] # pre_call[probe_i - 1] + Perturbations[probe_i - 1]
    /\ parameter_values = pre_call

\* C9: before validation update_parameters gives, for each continuous index
\* (0, 1, 2, 7, 8), new = old - learning_rate * gradient, and for each
\* integer-stepped index (3-6) old + 1 for a negative gradient, old - 1 for a
\* positive one, old for 0, whatever the magnitude; no field depends on
\* another field's gradient.
C9_UpdateRule ==
    pc = "updated" =>
        \A i \in Indices :
            LET old == arg.parameter_values[i]
                g == arg.gradients[i]
            IN  IF i \in {1, 2, 3, 8, 9}
                THEN (old - ret[i]) * learning_rate_inv = g * (ParamScale \div GradScale)
                ELSE ret[i] = (IF g < 0 THEN old + ParamScale
                               ELSE IF g > 0 THEN old - ParamScale ELSE old)

\* C9 witness: an update with gradients of both signs and of value 0 among
\* the integer-stepped fields and a non-zero gradient on a continuous field.
C9_Witness ==
    /\ pc = "updated"
    /\ arg.gradients[4] < 0
    /\ arg.gradients[5] > 0
    /\ arg.gradients[6] = 0
    /\ arg.gradients[3] # 0
    /\ ret[3] # arg.parameter_values[3]

\* C10: after any number of training steps every vector handed to the
\* evaluator (the base query and each of the 9 perturbed queries) and every
\* vector appended to parameter_log after an update has every field inside
\* its declared range.
C10_QueriedAndLoggedVectorsInRange ==
    /\ InRange(engine_config)
    /\ \A k \in 2..Len(parameter_log) : InRange(parameter_log[k])

\* C10 witness: a step has been logged whose update left the range before
\* validation, and a probe has been made since.
C10_Witness ==
    /\ count >= 1
    /\ pc \in {"for", "while"}
    /\ ~InRange(update_parameters(pre_call, grad_local, learning_rate_inv))
    /\ InRange(parameter_log[Len(parameter_log)])

\* old is the beginning of new: nothing in old is changed or removed
IsPrefix(old, new) ==
    /\ Len(old) <= Len(new)
    /\ \A k \in DOMAIN old : new[k] = old[k]

\* C11: the three logs are append-only and parallel: no step changes or
\* removes an entry a log already holds, the initial parameter entry
\* included, and each completed training step leaves exactly one more entry
\* in each log (one per step in loss_log and prediction_acc, one per step
\* after the initial entry in parameter_log).
C11_LogsAppendOnlyAndParallel ==
    [][/\ IsPrefix(parameter_log, parameter_log')
       /\ IsPrefix(loss_log, loss_log')
       /\ IsPrefix(prediction_acc, prediction_acc')
       /\ count' = count + 1 =>
            /\ Len(parameter_log') = Len(parameter_log) + 1
            /\ Len(loss_log') = count'
            /\ Len(prediction_acc') = count'
            /\ Len(parameter_log') = count' + 1]_vars

\* the index of the first move with the most visits
RefIndex == IndexOf(arg.engine_moves_n, SeqMax(arg.engine_moves_n))

\* C12: in get_selection_probs, with a value cutoff >= 0 and a positive
\* maximum visit count, the first move with the most visits is not excluded
\* and has unnormalized weight 1, the normalizing sum is at least 1, not
\* every move is excluded and no error is raised; every move whose value
\* estimate is below refValue - cutoff/50 has probability exactly 0.
C12_FirstMostVisitedMoveIsKept ==
    (/\ pc = "selected"
     /\ arg.parameter_values[9] >= 0
     /\ SeqMax(arg.engine_moves_n) > 0) =>
        /\ ret.error = "none"
        /\ ~EveryMoveExcluded
        /\ ret.probs[RefIndex][1] = WeightScale
        /\ ret.probs[RefIndex][2] >= WeightScale
        /\ \A j \in DOMAIN arg.engine_moves_n :
              arg.q_values[j] * 50 * ParamScale
                  < arg.q_values[RefIndex] * 50 * ParamScale - arg.parameter_values[9]
              => ret.probs[j][1] = 0

\* C12 witness: with the cutoff at 0 the first most visited move sits
\* exactly on the cutoff and is kept with weight 1, while a later move with
\* as many visits and a lower value estimate is excluded.
C12_Witness ==
    /\ ExcludesAMostVisitedMove
    /\ arg.parameter_values[9] = 0
    /\ SeqMax(arg.engine_moves_n) > 0
    /\ ret.probs[RefIndex][1] = WeightScale
    /\ ret.probs[RefIndex][2] = WeightScale

====
